---- MODULE Spec2Model ----
(***************************************************************************)
(* Model of the School-MCP setup helper (setup_helper.py): the discovery   *)
(* of the Claude Desktop configuration file, the resolution of script,     *)
(* package and runtime, the credentials (.env) bootstrap and the           *)
(* read-merge-write of the 'school-tools' entry.                           *)
(*                                                                         *)
(* Strings are sequences of atoms.  An atom is a chunk of text that is     *)
(* either one of the special characters " ", "#", "=" or a chunk that      *)
(* contains none of them at its ends (a word, a path component, a single   *)
(* letter of an operator's answer).  A Python dict is a sequence of        *)
(* <<key, value>> pairs with unique keys in insertion order.  A JSON       *)
(* value is a record [k, s, items]: k is the kind, s the text of a string  *)
(* and items the members of an object or the elements of a list.           *)
(***************************************************************************)
EXTENDS Integers, Sequences, FiniteSets, TLC

(***************************************************************************)
(* Bounds of the model.                                                    *)
(***************************************************************************)
NumOtherKeys == 1
NumOtherServers == 1
NumAlternates == 1
MaxLines == 3

(***************************************************************************)
(* Strings.                                                                *)
(***************************************************************************)
None == <<>>

Str(a) == <<a>>

RECURSIVE LStrip(_)
LStrip(s) == IF s # <<>> /\ Head(s) = " " THEN LStrip(Tail(s)) ELSE s

RECURSIVE RStrip(_)
RStrip(s) ==
  IF s # <<>> /\ s[Len(s)] = " " THEN RStrip(SubSeq(s, 1, Len(s) - 1)) ELSE s

Strip(s) == RStrip(LStrip(s))

LowerAtom(a) ==
  CASE a = "Y" -> "y"
    [] a = "E" -> "e"
    [] a = "S" -> "s"
    [] a = "N" -> "n"
    [] a = "O" -> "o"
    [] OTHER -> a

Lower(s) == [i \in 1..Len(s) |-> LowerAtom(s[i])]

StartsWith(s, a) == s # <<>> /\ Head(s) = a

\* position of the first atom a in s, 0 when there is none
FirstIndex(s, a) ==
  IF \E i \in 1..Len(s) : s[i] = a
  THEN CHOOSE i \in 1..Len(s) : s[i] = a /\ \A j \in 1..(i - 1) : s[j] # a
  ELSE 0

\* "sub in s" for strings
IsSubstring(sub, s) ==
  \E i \in 0..(Len(s) - Len(sub)) : SubSeq(s, i + 1, i + Len(sub)) = sub

(***************************************************************************)
(* Python dicts.                                                           *)
(***************************************************************************)
EmptyDict == <<>>

HasKey(d, key) == \E i \in 1..Len(d) : d[i][1] = key

Keys(d) == {d[i][1] : i \in 1..Len(d)}

Get(d, key) == d[CHOOSE i \in 1..Len(d) : d[i][1] = key][2]

\* a variant that never looks for the key
DictSetAppend(d, key, v) == Append(d, <<key, v>>)

DictSet(d, key, v) ==
  IF HasKey(d, key)
  THEN [i \in 1..Len(d) |-> IF d[i][1] = key THEN <<key, v>> ELSE d[i]]
  ELSE Append(d, <<key, v>>)

(***************************************************************************)
(* JSON values and the json module.                                        *)
(***************************************************************************)
JNull == [k |-> "null", s |-> <<>>, items |-> <<>>]
JNum(s) == [k |-> "num", s |-> s, items |-> <<>>]
JStr(s) == [k |-> "str", s |-> s, items |-> <<>>]
JList(vs) == [k |-> "list", s |-> <<>>, items |-> [i \in 1..Len(vs) |-> <<None, vs[i]>>]]
JObj(pairs) == [k |-> "obj", s |-> <<>>, items |-> pairs]

\* json.load of the members of an object: a repeated name keeps the place of
\* its first occurrence and the value of its last
RECURSIVE LoadPairs(_, _)
LoadPairs(pairs, acc) ==
  IF pairs = <<>> THEN acc
  ELSE LoadPairs(Tail(pairs), DictSet(acc, Head(pairs)[1], Head(pairs)[2]))

\* json.load of a document of nesting depth at most three
LoadLeaf(v) == v
LoadInner(v) ==
  IF v.k = "obj"
  THEN JObj(LoadPairs([i \in 1..Len(v.items) |-> <<v.items[i][1], LoadLeaf(v.items[i][2])>>], EmptyDict))
  ELSE v
JsonLoad(v) ==
  IF v.k = "obj"
  THEN JObj(LoadPairs([i \in 1..Len(v.items) |-> <<v.items[i][1], LoadInner(v.items[i][2])>>], EmptyDict))
  ELSE v

(***************************************************************************)
(* Files.                                                                  *)
(***************************************************************************)
\* the host configuration file: bad means the text is not valid JSON
AbsentJson == [exists |-> FALSE, bad |-> FALSE, val |-> JNull]
BadJson == [exists |-> TRUE, bad |-> TRUE, val |-> JNull]
JsonText(v) == [exists |-> TRUE, bad |-> FALSE, val |-> v]

\* json.dump(config, f, indent=2) into a freshly truncated file
JsonDump(v) == JsonText(v)

\* a text file of lines
AbsentText == [exists |-> FALSE, lines |-> <<>>]
TextFile(ls) == [exists |-> TRUE, lines |-> ls]

(***************************************************************************)
(* Names fixed by the program.                                             *)
(***************************************************************************)
McpServers == Str("mcpServers")
SchoolTools == Str("school-tools")
Command == Str("command")
Args == Str("args")
Env == Str("env")

RequiredVars ==
  << Str("CANVAS_ACCESS_TOKEN"), Str("CANVAS_DOMAIN"),
     Str("GRADESCOPE_EMAIL"), Str("GRADESCOPE_PASSWORD") >>

AllAlternates == <<"python", "python3", "python3.8", "python3.9", "python3.10", "python3.11">>

\* the alternates the model probes: the first NumAlternates of the list
Alternates == SubSeq(AllAlternates, 1, NumAlternates)

Platforms == {"darwin", "win32", "linux"}

\* sys.executable, and what shutil.which answers for a name on the search
\* path; a path is the sequence of its components
SysExecutable == <<"venv", "bin", "python">>
Which(name) == <<"usr", "bin", name>>

Dirname(path) == SubSeq(path, 1, Len(path) - 1)

(***************************************************************************)
(* find_claude_config                                                      *)
(***************************************************************************)
\* the candidate locations of the host configuration file
PossibleLocations(plat, appdata) ==
  IF plat = "darwin"
  THEN << <<"home", "Library", "Application Support", "Claude", "claude_desktop_config.json">> >>
  ELSE IF plat = "win32"
  THEN IF appdata
       THEN << <<"AppData", "Claude", "claude_desktop_config.json">> >>
       ELSE << >>
  ELSE << <<"home", ".config", "Claude", "claude_desktop_config.json">> >>

\* fileExists: whether the host configuration file exists at the candidate
\* a variant that returns the first candidate without looking for the file
FindClaudeConfigUnchecked(plat, appdata, fileExists) ==
  LET locs == PossibleLocations(plat, appdata)
  IN IF locs # <<>> THEN locs[1] ELSE None

FindClaudeConfig(plat, appdata, fileExists) ==
  LET locs == PossibleLocations(plat, appdata)
  IN IF \E i \in 1..Len(locs) : fileExists
     THEN locs[CHOOSE i \in 1..Len(locs) : fileExists /\ \A j \in 1..(i - 1) : ~fileExists]
     ELSE None

(***************************************************************************)
(* get_package_path                                                        *)
(***************************************************************************)
GetPackagePath(importable, inSite, inSrc, inWalk) ==
  IF importable THEN <<"site-packages", "school_mcp">>
  ELSE IF inSite THEN <<"site-packages", "school_mcp">>
  ELSE IF inSrc THEN <<"cwd", "src", "school_mcp">>
  ELSE IF inWalk THEN <<"cwd", "sub", "school_mcp">>
  ELSE None

(***************************************************************************)
(* find_python_executable                                                  *)
(***************************************************************************)
\* outcome of the probe of the current runtime, and of an alternate
CurrentOutcomes == {"found", "notfound", "raises"}
AlternateOutcomes == {"found", "notfound", "absent", "raises"}

\* the probe environments the model draws from: at most one alternate has
\* the package, every other alternate fails in one and the same way
ProbeEnvs ==
  { [i \in 1..Len(Alternates) |-> IF i = hit THEN "found" ELSE f] :
      hit \in 0..Len(Alternates), f \in AlternateOutcomes \ {"found"} }

\* a variant that takes a probe that ran for a probe that printed 'Found'
ProbeRan(outcome) == outcome \in {"found", "notfound"}

\* lines 82 and 96: "Found" in result.stdout
ProbeSucceeded(outcome) == outcome = "found"

\* a variant that gives up with no runtime
FallbackNone == None

\* line 102: return sys.executable
FallbackRuntime == SysExecutable

\* lines 88-102 from the i-th alternate on; alt holds the outcome of each
\* alternate the environment knows
RECURSIVE TryAlternates(_, _)
TryAlternates(i, alt) ==
  IF i > Len(alt) THEN FallbackRuntime
  ELSE IF ProbeSucceeded(alt[i]) THEN Which(AllAlternates[i])
  ELSE TryAlternates(i + 1, alt)

FindPythonExecutable(cur, alt) ==
  IF ProbeSucceeded(cur) THEN SysExecutable ELSE TryAlternates(1, alt)

(***************************************************************************)
(* get_script_path                                                         *)
(***************************************************************************)
ScriptName(plat) == IF plat = "win32" THEN "school-mcp.exe" ELSE "school-mcp"

\* onPath: shutil.which finds the script; beside: the script exists in the
\* bin/Scripts directory next to the resolved runtime
GetScriptPath(plat, onPath, pythonPath, beside) ==
  IF onPath THEN Which(ScriptName(plat))
  ELSE LET scripts_dir == Append(Dirname(pythonPath), IF plat = "win32" THEN "Scripts" ELSE "bin")
           potential_script == Append(scripts_dir, ScriptName(plat))
       IN IF beside THEN potential_script ELSE None

\* the probes get_script_path performs
ScriptProbes(onPath) == IF onPath THEN <<"script">> ELSE <<"script", "runtime">>

(***************************************************************************)
(* load_env_file                                                           *)
(***************************************************************************)
\* a variant that keeps the first value given to a key
RECURSIVE ParseLinesKeepFirst(_, _)
ParseLinesKeepFirst(lines, env_vars) ==
  IF lines = <<>> THEN [raised |-> FALSE, vars |-> env_vars]
  ELSE LET line == Strip(Head(lines))
           eq == FirstIndex(line, "=")
       IN IF line = <<>> \/ StartsWith(line, "#")
          THEN ParseLinesKeepFirst(Tail(lines), env_vars)
          ELSE IF eq = 0
          THEN [raised |-> TRUE, vars |-> env_vars]
          ELSE ParseLinesKeepFirst(Tail(lines),
                 IF HasKey(env_vars, Strip(SubSeq(line, 1, eq - 1)))
                 THEN env_vars
                 ELSE Append(env_vars, << Strip(SubSeq(line, 1, eq - 1)),
                                          Strip(SubSeq(line, eq + 1, Len(line))) >>))

\* the lines of the file in order; raised is the ValueError of unpacking a
\* line that has no "="
RECURSIVE ParseLines(_, _)
ParseLines(lines, env_vars) ==
  IF lines = <<>> THEN [raised |-> FALSE, vars |-> env_vars]
  ELSE LET line == Strip(Head(lines))
           eq == FirstIndex(line, "=")
       IN IF line = <<>> \/ StartsWith(line, "#")
          THEN ParseLines(Tail(lines), env_vars)
          ELSE IF eq = 0
          THEN [raised |-> TRUE, vars |-> env_vars]
          ELSE ParseLines(Tail(lines),
                 DictSet(env_vars, Strip(SubSeq(line, 1, eq - 1)),
                                   Strip(SubSeq(line, eq + 1, Len(line)))))

LoadEnvFile(file) ==
  IF file.exists THEN ParseLines(file.lines, EmptyDict)
  ELSE [raised |-> FALSE, vars |-> EmptyDict]

\* a variant that never looks for the .env file
EnvMissingAlways(file) == TRUE

\* not os.path.exists(env_path), lines 185 and 198
EnvMissing(file) == ~file.exists

\* [var for var in required_vars if var not in env_vars]
MissingVars(env_vars) ==
  SelectSeq(RequiredVars, LAMBDA var : ~HasKey(env_vars, var))

(***************************************************************************)
(* Operator answers.                                                       *)
(***************************************************************************)
Normalize(text) == Lower(Strip(text))

\* a variant of each test that reads the other prompt's default
AcceptsOnlyYes(text) == Lower(Strip(text)) \in {<<"y">>, <<"y", "e", "s">>}
IsYesOrEmpty(text) == Lower(Strip(text)) \in {<<>>, <<"y">>, <<"y", "e", "s">>}

\* the [Y/n] prompts: empty, 'y' or 'yes'
AcceptsDefaultYes(text) ==
  LET a == Normalize(text) IN a = <<>> \/ a \in {<<"y">>, <<"y", "e", "s">>}

\* the [y/N] prompt: 'y' or 'yes'
IsYes(text) == Normalize(text) \in {<<"y">>, <<"y", "e", "s">>}

(***************************************************************************)
(* The entry and the merge.                                                *)
(***************************************************************************)
EnvObject(env_vars) ==
  JObj([i \in 1..Len(env_vars) |-> <<env_vars[i][1], JStr(env_vars[i][2])>>])

\* a variant that always runs the package as a module
BuildConfigModuleForm(scriptPath, pythonPath, env_vars) ==
  LET base == << <<Command, JStr(pythonPath)>>,
                 <<Args, JList(<<JStr(Str("-m")), JStr(Str("school_mcp"))>>)>> >>
  IN JObj(IF env_vars # EmptyDict
          THEN Append(base, <<Env, JObj([i \in 1..Len(env_vars) |->
                                   <<env_vars[i][1], JStr(env_vars[i][2])>>])>>)
          ELSE base)

\* a variant that adds the credentials to the module form alone
BuildConfigEnvInElse(scriptPath, pythonPath, env_vars) ==
  IF scriptPath # None
  THEN JObj(<< <<Command, JStr(scriptPath)>> >>)
  ELSE LET base == << <<Command, JStr(pythonPath)>>,
                      <<Args, JList(<<JStr(Str("-m")), JStr(Str("school_mcp"))>>)>> >>
       IN JObj(IF env_vars # EmptyDict
               THEN Append(base, <<Env, JObj([i \in 1..Len(env_vars) |->
                                        <<env_vars[i][1], JStr(env_vars[i][2])>>])>>)
               ELSE base)

BuildConfig(scriptPath, pythonPath, env_vars) ==
  LET base == IF scriptPath # None
              THEN << <<Command, JStr(scriptPath)>> >>
              ELSE << <<Command, JStr(pythonPath)>>,
                      <<Args, JList(<<JStr(Str("-m")), JStr(Str("school_mcp"))>>)>> >>
  IN JObj(IF env_vars # EmptyDict
          THEN DictSet(base, Env, EnvObject(env_vars))
          ELSE base)

\* "key in v" for a decoded JSON value; TypeError for a value that is not
\* a container
SupportsIn(v) == v.k \in {"obj", "list", "str"}
Contains(v, key) ==
  CASE v.k = "obj" -> HasKey(v.items, key)
    [] v.k = "list" -> \E i \in 1..Len(v.items) : v.items[i][2] = JStr(key)
    [] v.k = "str" -> IsSubstring(key, v.s)
    [] OTHER -> FALSE

\* lines 164-165: ok is FALSE when the statement raises TypeError
EnsureSection(cfg) ==
  IF ~SupportsIn(cfg) THEN [ok |-> FALSE, val |-> cfg]
  ELSE IF Contains(cfg, McpServers) THEN [ok |-> TRUE, val |-> cfg]
  ELSE IF cfg.k = "obj"
  THEN [ok |-> TRUE, val |-> JObj(DictSet(cfg.items, McpServers, JObj(EmptyDict)))]
  ELSE [ok |-> FALSE, val |-> cfg]

\* a variant that updates the earlier entry field by field
SetEntryMerge(cfg, entry) ==
  IF cfg.k # "obj" \/ ~HasKey(cfg.items, McpServers)
  THEN [ok |-> FALSE, val |-> cfg]
  ELSE LET servers == Get(cfg.items, McpServers)
       IN IF servers.k # "obj" THEN [ok |-> FALSE, val |-> cfg]
          ELSE LET kept == IF HasKey(servers.items, SchoolTools)
                                /\ Get(servers.items, SchoolTools).k = "obj"
                           THEN SelectSeq(Get(servers.items, SchoolTools).items,
                                          LAMBDA m : ~HasKey(entry.items, m[1]))
                           ELSE <<>>
               IN [ok |-> TRUE,
                   val |-> JObj(DictSet(cfg.items, McpServers,
                             JObj(DictSet(servers.items, SchoolTools,
                                          JObj(entry.items \o kept)))))]

\* a variant that builds the document anew around the entry
SetEntryFresh(cfg, entry) ==
  [ok |-> TRUE, val |-> JObj(<< <<McpServers, JObj(<< <<SchoolTools, entry>> >>)>> >>)]

\* a variant that files the entry under the name of the package
SetEntryWrongName(cfg, entry) ==
  IF cfg.k # "obj" \/ ~HasKey(cfg.items, McpServers)
  THEN [ok |-> FALSE, val |-> cfg]
  ELSE LET servers == Get(cfg.items, McpServers)
       IN IF servers.k # "obj" THEN [ok |-> FALSE, val |-> cfg]
          ELSE [ok |-> TRUE,
                val |-> JObj(DictSet(cfg.items, McpServers,
                                     JObj(DictSet(servers.items, Str("school_mcp"), entry))))]

\* line 248: config['mcpServers']['school-tools'] = school_mcp_config
SetEntry(cfg, entry) ==
  IF cfg.k # "obj" \/ ~HasKey(cfg.items, McpServers)
  THEN [ok |-> FALSE, val |-> cfg]
  ELSE LET servers == Get(cfg.items, McpServers)
       IN IF servers.k # "obj" THEN [ok |-> FALSE, val |-> cfg]
          ELSE [ok |-> TRUE,
                val |-> JObj(DictSet(cfg.items, McpServers,
                                     JObj(DictSet(servers.items, SchoolTools, entry))))]

\* a variant that goes on without a located file
ConfigMissingIgnored(path) == FALSE

\* line 147: if not config_file
ConfigMissing(path) == path = None

\* a variant that goes on without a package
PackageMissingIgnored(path) == FALSE

\* line 172: if not package_path
PackageMissing(path) == path = None

\* a variant whose except clause names json.JSONDecodeError alone
DecodeConfigStrict(file, denied) ==
  IF denied
  THEN [kind |-> "denied", raised |-> "PermissionError", doc |-> JNull]
  ELSE IF ~file.exists
  THEN [kind |-> "missing", raised |-> "FileNotFoundError", doc |-> JNull]
  ELSE IF file.bad
  THEN [kind |-> "invalid", raised |-> "none", doc |-> JObj(EmptyDict)]
  ELSE [kind |-> "ok", raised |-> "none", doc |-> JsonLoad(file.val)]

\* lines 156-161: the read of the located file.  kind is what open and
\* json.load met, raised the exception that leaves the try statement
DecodeConfig(file, denied) ==
  IF denied
  THEN [kind |-> "denied", raised |-> "PermissionError", doc |-> JNull]
  ELSE IF ~file.exists
  THEN [kind |-> "missing", raised |-> "none", doc |-> JObj(EmptyDict)]
  ELSE IF file.bad
  THEN [kind |-> "invalid", raised |-> "none", doc |-> JObj(EmptyDict)]
  ELSE [kind |-> "ok", raised |-> "none", doc |-> JsonLoad(file.val)]

\* a variant with the two statuses exchanged
ExitCodeSwapped(success) == IF success THEN 1 ELSE 0

\* main: sys.exit(0 if success else 1)
ExitCode(success) == IF success THEN 0 ELSE 1

(***************************************************************************)
(* The files and answers the model starts from.                            *)
(***************************************************************************)
OtherKeyNames == <<"theme", "globalShortcut", "scale">>
OtherServerNames == <<"filesystem", "github", "memory">>

OtherKeys(n) == [i \in 1..n |-> <<Str(OtherKeyNames[i]), JStr(Str("dark"))>>]

OtherServers(m) ==
  [i \in 1..m |-> <<Str(OtherServerNames[i]), JObj(<< <<Command, JStr(Str("npx"))>> >>)>>]

\* an entry left under 'school-tools' by an earlier installation
OldEntry ==
  JObj(<< <<Command, JStr(Str("old-school-mcp"))>>,
          <<Args, JList(<<JStr(Str("--legacy"))>>)>>,
          <<Env, JObj(<< <<Str("OLD_TOKEN"), JStr(Str("t0"))>> >>)>> >>)

\* the values found under 'mcpServers': an object of other servers, with
\* and without an earlier 'school-tools', and a value that is no object
ServerSections ==
  { JObj(OtherServers(NumOtherServers) \o old) :
      old \in {<<>>, << <<SchoolTools, OldEntry>> >>} }
  \cup { JList(<<>>) }

\* the last document names 'mcpServers' and 'theme' twice
ObjectDocs ==
  { JObj(EmptyDict), JObj(OtherKeys(NumOtherKeys)) }
  \cup { JObj(OtherKeys(NumOtherKeys) \o << <<McpServers, sec>> >>) : sec \in ServerSections }
  \cup { JObj(<< <<McpServers, JObj(<< <<SchoolTools, OldEntry>> >>)>>,
                 <<Str("theme"), JStr(Str("light"))>>,
                 <<Str("theme"), JStr(Str("dark"))>>,
                 <<McpServers, JObj(OtherServers(1) \o OtherServers(1))>> >>) }

\* valid JSON that is no object
OtherDocs == { JList(<<>>), JList(<<JStr(McpServers)>>), JStr(McpServers), JNull }

\* a file of no bytes, and a file of text that is no JSON
EmptyFile == BadJson
Garbage == [exists |-> TRUE, bad |-> TRUE, val |-> JStr(Str("{not json"))]

ConfigFiles ==
  {AbsentJson, EmptyFile, Garbage} \cup {JsonText(v) : v \in ObjectDocs \cup OtherDocs}

\* the text written at lines 217-225
Skeleton ==
  TextFile(<< <<"#", " ", "Canvas API credentials">>,
              <<"CANVAS_ACCESS_TOKEN", "=", "your_canvas_token_here">>,
              <<"CANVAS_DOMAIN", "=", "canvas.your_institution.edu">>,
              <<>>,
              <<"#", " ", "Gradescope credentials">>,
              <<"GRADESCOPE_EMAIL", "=", "your_email@your_institution.edu">>,
              <<"GRADESCOPE_PASSWORD", "=", "your_gradescope_password">> >>)

Template ==
  TextFile(<< <<"CANVAS_ACCESS_TOKEN", "=">>, <<"CANVAS_DOMAIN", "=">>,
              <<"GRADESCOPE_EMAIL", "=">>, <<"GRADESCOPE_PASSWORD", "=">> >>)

CompleteEnv ==
  TextFile(<< <<"#", " ", "my credentials">>,
              <<" ", "CANVAS_ACCESS_TOKEN", " ", "=", " ", "tok", " ">>,
              <<"CANVAS_DOMAIN", "=", "old.edu">>,
              <<>>,
              <<"GRADESCOPE_EMAIL", "=", "me@x.edu">>,
              <<"GRADESCOPE_PASSWORD", "=", "a", "=", "b">>,
              <<"CANVAS_DOMAIN", "=", "canvas.x.edu">> >>)

PartialEnv ==
  TextFile(<< <<"CANVAS_ACCESS_TOKEN", "=", "tok">>, <<"CANVAS_DOMAIN", "=", "canvas.x.edu">> >>)

BlankEnv == TextFile(<< <<"#", "nothing yet">>, <<>>, <<" ", " ">> >>)

MalformedEnv ==
  TextFile(<< <<"CANVAS_DOMAIN", "=", "canvas.x.edu">>, <<"export CANVAS_ACCESS_TOKEN">> >>)

EnvFiles == {AbsentText, CompleteEnv, PartialEnv, BlankEnv, MalformedEnv, Skeleton, Template}

Answers == { <<>>, <<"y">>, <<" ", "Y", "E", "S", " ">>, <<"n">> }

\* input(): the text typed, or EOFError on a closed standard input
Inputs ==
  {[eof |-> TRUE, text |-> <<>>]} \cup {[eof |-> FALSE, text |-> a] : a \in Answers}

(***************************************************************************)
(* State.                                                                  *)
(***************************************************************************)
VARIABLES
  pc,                 \* the step the run is at
  platform,           \* sys.platform
  cfgFile,            \* the host configuration file on disk
  envFile,            \* the .env file on disk
  templateFile,       \* the .env.template file on disk
  config_file,        \* the located path, None when not found
  config,             \* the decoded document being edited
  script_path, package_path, python_path,
  env_vars,           \* the parsed credentials
  school_mcp_config,  \* the entry built at lines 231-245
  result,             \* "running", "True", "False" or "raised"
  fault,              \* the exception that left setup_claude_config
  exitStatus,         \* -1 while the process runs
  probes,             \* the resolution probes performed, in order
  prompts,            \* the prompts issued and the text answered, in order
  fsLog,              \* the files written by this run, in order
  printedManual,      \* print_manual_instructions has printed
  cfg0,               \* the host configuration file as the run found it
  startDoc,           \* the document the run started from (line 158 or 161)
  readKind,           \* what the read met: "none", "ok", "invalid", "missing", "denied"
  env0,               \* the .env file as the run found it
  trace,              \* the steps the run has taken, in order
  prev,               \* what the previous run resolved, built and wrote, if it succeeded
  rpc,                \* find_python_executable alone: the step it is at
  renv,               \* the outcome each candidate's probe would have
  rlog,               \* the candidates looked at, with their outcomes, in order
  rret,               \* the path returned
  ppc,                \* load_env_file alone: the step it is at
  pfile,              \* the file it is given
  pout                \* what it returns or raises

vars ==
  << pc, platform, cfgFile, envFile, templateFile, config_file, config,
     script_path, package_path, python_path, env_vars, school_mcp_config,
     result, fault, exitStatus, probes, prompts, fsLog, printedManual,
     cfg0, startDoc, readKind, env0, trace, prev,
     rpc, renv, rlog, rret, ppc, pfile, pout >>

\* the state of the functions that are run on their own
units == << rpc, renv, rlog, rret, ppc, pfile, pout >>

UnitsIdle ==
  /\ rpc = "idle"
  /\ renv = [cur |-> "found", alt |-> <<>>]
  /\ rlog = <<>>
  /\ rret = None
  /\ ppc = "idle"
  /\ pfile = AbsentText
  /\ pout = [raised |-> FALSE, vars |-> EmptyDict]

files == << cfgFile, envFile, templateFile >>
resolved == << script_path, package_path, python_path >>
history == << cfg0, startDoc, readKind, env0, prev >>

NoPrev == [ok |-> FALSE, entry |-> JNull, cfg |-> AbsentJson, resolved |-> <<None, None, None>>]

\* the locals of a run before main calls setup_claude_config
RunStart ==
  /\ pc' = "locate"
  /\ config_file' = None
  /\ config' = JNull
  /\ script_path' = None
  /\ package_path' = None
  /\ python_path' = None
  /\ env_vars' = EmptyDict
  /\ school_mcp_config' = JNull
  /\ result' = "running"
  /\ fault' = "none"
  /\ exitStatus' = -1
  /\ probes' = <<>>
  /\ prompts' = <<>>
  /\ fsLog' = <<>>
  /\ printedManual' = FALSE
  /\ startDoc' = JNull
  /\ readKind' = "none"
  /\ trace' = <<>>

Init ==
  /\ pc = "locate"
  /\ platform \in Platforms
  /\ cfgFile \in ConfigFiles
  /\ envFile \in EnvFiles
  /\ templateFile \in {AbsentText, Template}
  /\ config_file = None
  /\ config = JNull
  /\ script_path = None
  /\ package_path = None
  /\ python_path = None
  /\ env_vars = EmptyDict
  /\ school_mcp_config = JNull
  /\ result = "running"
  /\ fault = "none"
  /\ exitStatus = -1
  /\ probes = <<>>
  /\ prompts = <<>>
  /\ fsLog = <<>>
  /\ printedManual = FALSE
  /\ cfg0 = cfgFile
  /\ startDoc = JNull
  /\ readKind = "none"
  /\ env0 = envFile
  /\ trace = <<>>
  /\ prev = NoPrev
  /\ UnitsIdle

\* setup_claude_config returns False
ReturnFalse == result' = "False" /\ fault' = "none" /\ pc' = "exit"

\* an exception leaves setup_claude_config
Raise(e) == result' = "raised" /\ fault' = e /\ pc' = "exit"

\* print_manual_instructions: it resolves the script and the runtime again
PrintManualInstructions(onPath) ==
  /\ probes' = probes \o ScriptProbes(onPath) \o <<"runtime">>
  /\ printedManual' = TRUE

(***************************************************************************)
(* The steps of setup_claude_config and main.                              *)
(***************************************************************************)
\* lines 145-153
LocateConfig ==
  /\ trace' = Append(trace, pc)
  /\ pc = "locate"
  /\ \E appdata \in BOOLEAN, onPath \in BOOLEAN :
       /\ config_file' = FindClaudeConfig(platform, appdata, cfgFile.exists)
       /\ IF ConfigMissing(config_file')
          THEN PrintManualInstructions(onPath) /\ ReturnFalse
          ELSE /\ pc' = "read"
               /\ UNCHANGED << probes, printedManual, result, fault >>
  /\ UNCHANGED << units, platform, files, config, resolved, env_vars, school_mcp_config,
                  exitStatus, prompts, fsLog, history >>

\* lines 155-161; io is what the file system does between the existence
\* check of line 41 and the open of line 157
ReadConfig ==
  /\ trace' = Append(trace, pc)
  /\ pc = "read"
  /\ \E io \in {"ok", "removed", "denied"} :
       LET file == IF io = "removed" THEN AbsentJson ELSE cfgFile
           r == DecodeConfig(file, io = "denied")
       IN /\ cfgFile' = file
          /\ readKind' = r.kind
          /\ IF r.raised # "none"
             THEN /\ Raise(r.raised)
                  /\ UNCHANGED << config, startDoc >>
             ELSE /\ config' = r.doc
                  /\ startDoc' = r.doc
                  /\ pc' = "ensure"
                  /\ UNCHANGED << result, fault >>
  /\ UNCHANGED << units, platform, envFile, templateFile, config_file, resolved, env_vars,
                  school_mcp_config, exitStatus, probes, prompts, fsLog,
                  printedManual, cfg0, env0, prev >>

\* lines 163-165
EnsureMcpServers ==
  /\ trace' = Append(trace, pc)
  /\ pc = "ensure"
  /\ LET r == EnsureSection(config)
     IN IF r.ok
        THEN config' = r.val /\ pc' = "resolve" /\ UNCHANGED << result, fault >>
        ELSE Raise("TypeError") /\ UNCHANGED config
  /\ UNCHANGED << units, platform, files, config_file, resolved, env_vars, school_mcp_config,
                  exitStatus, probes, prompts, fsLog, printedManual, history >>

\* lines 167-181
ResolveEnvironment ==
  /\ trace' = Append(trace, pc)
  /\ pc = "resolve"
  /\ \E onPath \in BOOLEAN, beside \in BOOLEAN,
        cur \in CurrentOutcomes, alt \in ProbeEnvs,
        importable \in BOOLEAN, inSite \in BOOLEAN, inSrc \in BOOLEAN, inWalk \in BOOLEAN :
       /\ script_path' = GetScriptPath(platform, onPath, FindPythonExecutable(cur, alt), beside)
       /\ package_path' = GetPackagePath(importable, inSite, inSrc, inWalk)
       /\ python_path' = FindPythonExecutable(cur, alt)
       /\ probes' = probes \o ScriptProbes(onPath) \o <<"package", "runtime">>
       /\ prev.ok => <<script_path', package_path', python_path'>> = prev.resolved
  /\ IF PackageMissing(package_path')
     THEN ReturnFalse
     ELSE pc' = "template" /\ UNCHANGED << result, fault >>
  /\ UNCHANGED << units, platform, files, config_file, config, env_vars, school_mcp_config,
                  exitStatus, prompts, fsLog, printedManual, history >>

\* a variant that goes on to the credentials after the copy
OfferTemplateContinues ==
  /\ trace' = Append(trace, pc)
  /\ pc = "template"
  /\ IF ~EnvMissing(envFile) \/ ~templateFile.exists
     THEN /\ pc' = "credentials"
          /\ UNCHANGED << envFile, prompts, fsLog, result, fault >>
     ELSE \E in \in Inputs, copied \in BOOLEAN :
            /\ prompts' = Append(prompts, <<"template", in.text>>)
            /\ IF in.eof
               THEN Raise("EOFError") /\ UNCHANGED << envFile, fsLog >>
               ELSE IF AcceptsDefaultYes(in.text)
               THEN IF copied
                    THEN /\ envFile' = templateFile
                         /\ fsLog' = Append(fsLog, "env_copy")
                         /\ pc' = "credentials"
                         /\ UNCHANGED << result, fault >>
                    ELSE Raise("OSError") /\ UNCHANGED << envFile, fsLog >>
               ELSE /\ pc' = "credentials"
                    /\ UNCHANGED << envFile, fsLog, result, fault >>
  /\ UNCHANGED << units, platform, cfgFile, templateFile, config_file, config, resolved,
                  env_vars, school_mcp_config, exitStatus, probes, printedManual,
                  history >>

\* lines 183-194
OfferTemplate ==
  /\ trace' = Append(trace, pc)
  /\ pc = "template"
  /\ IF ~EnvMissing(envFile) \/ ~templateFile.exists
     THEN /\ pc' = "credentials"
          /\ UNCHANGED << envFile, prompts, fsLog, result, fault >>
     ELSE \E in \in Inputs, copied \in BOOLEAN :
            /\ prompts' = Append(prompts, <<"template", in.text>>)
            /\ IF in.eof
               THEN Raise("EOFError") /\ UNCHANGED << envFile, fsLog >>
               ELSE IF AcceptsDefaultYes(in.text)
               THEN IF copied
                    THEN /\ envFile' = templateFile
                         /\ fsLog' = Append(fsLog, "env_copy")
                         /\ ReturnFalse
                    ELSE Raise("OSError") /\ UNCHANGED << envFile, fsLog >>
               ELSE /\ pc' = "credentials"
                    /\ UNCHANGED << envFile, fsLog, result, fault >>
  /\ UNCHANGED << units, platform, cfgFile, templateFile, config_file, config, resolved,
                  env_vars, school_mcp_config, exitStatus, probes, printedManual,
                  history >>

\* lines 196-228
ResolveCredentials ==
  /\ trace' = Append(trace, pc)
  /\ pc = "credentials"
  /\ IF ~EnvMissing(envFile)
     THEN LET parsed == LoadEnvFile(envFile)
          IN IF parsed.raised
             THEN /\ Raise("ValueError")
                  /\ UNCHANGED << env_vars, envFile, prompts, fsLog >>
             ELSE /\ env_vars' = parsed.vars
                  /\ UNCHANGED << envFile, fsLog >>
                  /\ IF MissingVars(parsed.vars) # <<>>
                     THEN \E in \in Inputs :
                            /\ prompts' = Append(prompts, <<"continue", in.text>>)
                            /\ IF in.eof THEN Raise("EOFError")
                               ELSE IF ~IsYes(in.text) THEN ReturnFalse
                               ELSE pc' = "build" /\ UNCHANGED << result, fault >>
                     ELSE pc' = "build" /\ UNCHANGED << prompts, result, fault >>
     ELSE \E in \in Inputs, created \in BOOLEAN :
            /\ prompts' = Append(prompts, <<"create", in.text>>)
            /\ UNCHANGED env_vars
            /\ IF in.eof
               THEN Raise("EOFError") /\ UNCHANGED << envFile, fsLog >>
               ELSE IF AcceptsDefaultYes(in.text)
               THEN IF created
                    THEN /\ envFile' = Skeleton
                         /\ fsLog' = Append(fsLog, "env_skeleton")
                         /\ ReturnFalse
                    ELSE Raise("OSError") /\ UNCHANGED << envFile, fsLog >>
               ELSE /\ pc' = "build"
                    /\ UNCHANGED << envFile, fsLog, result, fault >>
  /\ UNCHANGED << units, platform, cfgFile, templateFile, config_file, config, resolved,
                  school_mcp_config, exitStatus, probes, printedManual, history >>

\* lines 230-248
BuildEntry ==
  /\ trace' = Append(trace, pc)
  /\ pc = "build"
  /\ school_mcp_config' = BuildConfig(script_path, python_path, env_vars)
  /\ LET r == SetEntry(config, school_mcp_config')
     IN IF r.ok
        THEN config' = r.val /\ pc' = "write" /\ UNCHANGED << result, fault >>
        ELSE Raise("TypeError") /\ UNCHANGED config
  /\ UNCHANGED << units, platform, files, config_file, resolved, env_vars, exitStatus,
                  probes, prompts, fsLog, printedManual, history >>

\* lines 250-262; w is what the file system does with the write: the open
\* fails, or the dump fails after the open has truncated the file and
\* leaves a file of no bytes or of the beginning of the text
WriteConfig ==
  /\ trace' = Append(trace, pc)
  /\ pc = "write"
  /\ \E w \in {"ok", "open_fails", "dump_fails"}, onPath \in BOOLEAN,
        partial \in {EmptyFile, Garbage} :
       IF w = "ok"
       THEN /\ cfgFile' = JsonDump(config)
            /\ fsLog' = Append(fsLog, "config")
            /\ result' = "True" /\ fault' = "none" /\ pc' = "exit"
            /\ UNCHANGED << probes, printedManual >>
       ELSE /\ cfgFile' = IF w = "dump_fails" THEN partial ELSE cfgFile
            /\ fsLog' = IF w = "dump_fails" THEN Append(fsLog, "config_partial") ELSE fsLog
            /\ PrintManualInstructions(onPath)
            /\ ReturnFalse
  /\ UNCHANGED << units, platform, envFile, templateFile, config_file, config, resolved,
                  env_vars, school_mcp_config, exitStatus, prompts, history >>

\* lines 316-319: sys.exit(0 if success else 1); an exception that reaches
\* the top of the program ends the process with a traceback and status 1
Exit ==
  /\ trace' = Append(trace, pc)
  /\ pc = "exit"
  /\ IF result = "raised"
     THEN pc' = "crashed" /\ exitStatus' = 1
     ELSE pc' = "done" /\ exitStatus' = ExitCode(result = "True")
  /\ UNCHANGED << units, platform, files, config_file, config, resolved, env_vars,
                  school_mcp_config, result, fault, probes, prompts, fsLog,
                  printedManual, history >>

\* the operator invokes the program again after a successful run, in the
\* same environment: the next run resolves the same script, package and
\* runtime (the files a failed run leaves behind are like those Init
\* starts from)
Rerun ==
  /\ pc = "done"
  /\ exitStatus = 0
  /\ RunStart
  /\ cfg0' = cfgFile
  /\ env0' = envFile
  /\ prev' = [ok |-> TRUE, entry |-> school_mcp_config, cfg |-> cfgFile,
               resolved |-> <<script_path, package_path, python_path>>]
  /\ UNCHANGED << units, platform, files >>

Next ==
  \/ LocateConfig
  \/ ReadConfig
  \/ EnsureMcpServers
  \/ ResolveEnvironment
  \/ OfferTemplate
  \/ ResolveCredentials
  \/ BuildEntry
  \/ WriteConfig
  \/ Exit
  \/ Rerun

Spec == Init /\ [][Next]_vars

(***************************************************************************)
(* find_python_executable on its own, probe by probe, over the whole list  *)
(* of alternates and every combination of outcomes.                        *)
(***************************************************************************)
main == << pc, platform, cfgFile, envFile, templateFile, config_file, config,
           script_path, package_path, python_path, env_vars, school_mcp_config,
           result, fault, exitStatus, probes, prompts, fsLog, printedManual,
           cfg0, startDoc, readKind, env0, trace, prev >>

\* the program itself is not running
MainIdle ==
  /\ pc = "idle"
  /\ platform = "linux"
  /\ cfgFile = AbsentJson
  /\ envFile = AbsentText
  /\ templateFile = AbsentText
  /\ config_file = None
  /\ config = JNull
  /\ script_path = None
  /\ package_path = None
  /\ python_path = None
  /\ env_vars = EmptyDict
  /\ school_mcp_config = JNull
  /\ result = "running"
  /\ fault = "none"
  /\ exitStatus = -1
  /\ probes = <<>>
  /\ prompts = <<>>
  /\ fsLog = <<>>
  /\ printedManual = FALSE
  /\ cfg0 = AbsentJson
  /\ startDoc = JNull
  /\ readKind = "none"
  /\ env0 = AbsentText
  /\ trace = <<>>
  /\ prev = NoPrev

InitResolver ==
  /\ MainIdle
  /\ rpc = "current"
  /\ renv \in [cur : CurrentOutcomes,
                alt : [1..Len(AllAlternates) -> AlternateOutcomes]]
  /\ rlog = <<>>
  /\ rret = None
  /\ ppc = "idle"
  /\ pfile = AbsentText
  /\ pout = [raised |-> FALSE, vars |-> EmptyDict]

\* lines 75-85: the probe of sys.executable
ProbeCurrent ==
  /\ rpc = "current"
  /\ rlog' = Append(rlog, <<"sys.executable", renv.cur>>)
  /\ IF ProbeSucceeded(renv.cur)
     THEN rret' = SysExecutable /\ rpc' = "returned"
     ELSE rret' = rret /\ rpc' = "alternates"
  /\ UNCHANGED << main, renv, ppc, pfile, pout >>

\* lines 88-99: one turn of the loop; an alternate that shutil.which does
\* not find is looked up and not run
ProbeAlternate ==
  /\ rpc = "alternates"
  /\ Len(rlog) <= Len(AllAlternates)
  /\ LET i == Len(rlog)
     IN /\ rlog' = Append(rlog, <<AllAlternates[i], renv.alt[i]>>)
        /\ IF ProbeSucceeded(renv.alt[i])
           THEN rret' = Which(AllAlternates[i]) /\ rpc' = "returned"
           ELSE rret' = rret /\ rpc' = "alternates"
  /\ UNCHANGED << main, renv, ppc, pfile, pout >>

\* lines 101-102: the loop is over
ReturnCurrent ==
  /\ rpc = "alternates"
  /\ Len(rlog) > Len(AllAlternates)
  /\ rret' = FallbackRuntime
  /\ rpc' = "returned"
  /\ UNCHANGED << main, renv, rlog, ppc, pfile, pout >>

NextResolver == ProbeCurrent \/ ProbeAlternate \/ ReturnCurrent

SpecResolver == InitResolver /\ [][NextResolver]_vars

(***************************************************************************)
(* load_env_file on its own, over every file of up to MaxLines lines.      *)
(***************************************************************************)
\* the lines a file is made of: blank, comment, KEY=VALUE with and without
\* surrounding spaces, a value with "=" in it, an empty value, an empty
\* key, a comment with "=" in it, and a line with no "="
LineKinds ==
  { <<>>, <<" ">>, <<"#", " ", "comment">>, <<" ", "#", "A", "=", "9">>,
    <<"A", "=", "1">>, <<" ", "A", " ", "=", " ", "2", " ">>, <<"B", "=", "2">>,
    <<"A", "=", "x", "=", "y">>, <<"B", "=">>, <<"=", "v">>, <<"junk">> }

\* 'A=1\nB=2\n# comment\n\n'
ExampleFile == TextFile(<< <<"A", "=", "1">>, <<"B", "=", "2">>, <<"#", " ", "comment">>, <<>> >>)

ParserFiles ==
  {AbsentText, ExampleFile}
  \cup { TextFile(ls) : ls \in UNION { [1..n -> LineKinds] : n \in 0..MaxLines } }

InitParser ==
  /\ MainIdle
  /\ rpc = "idle"
  /\ renv = [cur |-> "found", alt |-> <<>>]
  /\ rlog = <<>>
  /\ rret = None
  /\ ppc = "called"
  /\ pfile \in ParserFiles
  /\ pout = [raised |-> FALSE, vars |-> EmptyDict]

\* lines 127-141: the call returns the mapping or raises
ParseEnvFile ==
  /\ ppc = "called"
  /\ pout' = LoadEnvFile(pfile)
  /\ ppc' = IF pout'.raised THEN "raised" ELSE "returned"
  /\ UNCHANGED << main, rpc, renv, rlog, rret, pfile >>

NextParser == ParseEnvFile

SpecParser == InitParser /\ [][NextParser]_vars

(***************************************************************************)
(* Properties.                                                             *)
(***************************************************************************)
Range(seq) == {seq[i] : i \in 1..Len(seq)}

Terminated == pc \in {"done", "crashed"}

\* the run has written the host configuration file in full
ConfigWritten == fsLog # <<>> /\ fsLog[Len(fsLog)] = "config"

\* the members of an object other than the one named skip are in after what
\* they are in before, and after has no name beyond those of before and skip
SameExcept(before, after, skip) ==
  /\ Keys(after) \cup {skip} = Keys(before) \cup {skip}
  /\ \A key \in Keys(before) \ {skip} :
       \E i \in 1..Len(after) : after[i] = <<key, Get(before, key)>>

\* startDoc and doc differ at most in mcpServers['school-tools']
OnlyEntryDiffers(doc) ==
  /\ startDoc.k = "obj" /\ doc.k = "obj"
  /\ HasKey(doc.items, McpServers)
  /\ SameExcept(startDoc.items, doc.items, McpServers)
  /\ Get(doc.items, McpServers).k = "obj"
  /\ HasKey(startDoc.items, McpServers) =>
       /\ Get(startDoc.items, McpServers).k = "obj"
       /\ SameExcept(Get(startDoc.items, McpServers).items,
                     Get(doc.items, McpServers).items, SchoolTools)
  /\ ~HasKey(startDoc.items, McpServers) =>
       Keys(Get(doc.items, McpServers).items) \subseteq {SchoolTools}

\* C1: a run that reaches the write step hands to the write, and on success
\* leaves in the file, a document that has every top-level key of the
\* document read other than 'mcpServers' with its value, every entry of
\* 'mcpServers' other than 'school-tools' with its value, and nothing else
\* beside mcpServers['school-tools'].
C1_OnlySchoolToolsDiffers ==
  /\ pc = "write" => OnlyEntryDiffers(config)
  /\ ConfigWritten => cfgFile.exists /\ ~cfgFile.bad /\ OnlyEntryDiffers(cfgFile.val)

C1_Witness ==
  /\ pc = "done" /\ ConfigWritten
  /\ startDoc.k = "obj"
  /\ HasKey(startDoc.items, Str("theme"))
  /\ HasKey(startDoc.items, McpServers)
  /\ Keys(Get(startDoc.items, McpServers).items) = {Str("filesystem"), SchoolTools}
  /\ Get(Get(cfgFile.val.items, McpServers).items, SchoolTools) = school_mcp_config
  /\ cfgFile # cfg0

\* the document with the entry under 'school-tools' and nothing else
FreshDoc(entry) ==
  JObj(<< <<McpServers, JObj(<< <<SchoolTools, entry>> >>)>> >>)

\* C2: merging is idempotent.  Merging the entry again into the document
\* that is about to be written changes nothing, and a successful run that
\* follows a successful run, builds the same entry and reads the file the
\* earlier run left, leaves the file as the earlier run left it.
C2_MergeIdempotent ==
  /\ pc = "write" =>
       /\ EnsureSection(config) = [ok |-> TRUE, val |-> config]
       /\ SetEntry(config, school_mcp_config) = [ok |-> TRUE, val |-> config]
  /\ (pc = "done" /\ exitStatus = 0 /\ prev.ok /\ readKind = "ok"
        /\ prev.entry = school_mcp_config) => cfgFile = prev.cfg

C2_Witness ==
  /\ pc = "done" /\ exitStatus = 0 /\ prev.ok /\ readKind = "ok"
  /\ prev.entry = school_mcp_config
  /\ HasKey(school_mcp_config.items, Env)
  /\ Len(cfgFile.val.items) > 1
  /\ Len(Get(cfgFile.val.items, McpServers).items) > 1

\* C3: a run that starts from a file of no bytes, from the empty object or
\* from a file that is gone when it is opened writes a document whose
\* 'mcpServers' has exactly one entry, 'school-tools', equal to the entry
\* built.
C3_EmptyStartOneEntry ==
  (ConfigWritten /\ (readKind = "missing" \/ cfg0 \in {EmptyFile, JsonText(JObj(EmptyDict))})) =>
     /\ cfgFile.exists /\ ~cfgFile.bad /\ cfgFile.val.k = "obj"
     /\ HasKey(cfgFile.val.items, McpServers)
     /\ Get(cfgFile.val.items, McpServers) = JObj(<< <<SchoolTools, school_mcp_config>> >>)
     /\ school_mcp_config = BuildConfig(script_path, python_path, env_vars)

C3_Witness ==
  /\ pc = "done" /\ exitStatus = 0 /\ cfg0 = EmptyFile /\ readKind = "invalid"
  /\ cfgFile = JsonText(FreshDoc(school_mcp_config))
  /\ HasKey(school_mcp_config.items, Args)

\* the run started from the empty document and, if it wrote, wrote the
\* document that holds the entry alone
StartedEmpty ==
  /\ readKind \in {"invalid", "missing"}
  /\ startDoc = JObj(EmptyDict)
  /\ pc \in {"resolve", "template", "credentials", "build"} =>
       config = JObj(<< <<McpServers, JObj(EmptyDict)>> >>)
  /\ pc = "write" => config = FreshDoc(school_mcp_config)
  /\ ConfigWritten => cfgFile = JsonText(FreshDoc(school_mcp_config))

\* C4 as claimed: a run that finds no configuration file and a run that
\* finds one that is not valid JSON are treated alike, both start from the
\* empty document and end with the document that holds the entry alone.
C4_AbsentLikeInvalid ==
  (Terminated /\ (~cfg0.exists \/ cfg0.bad) /\ readKind # "denied") => StartedEmpty

\* C4 as amended: a located file that is not valid JSON and a located file
\* that is gone when it is opened are treated alike: the run starts from
\* the empty document, carries the same document through every later step
\* and, if it writes, writes the document that holds the entry alone.  A
\* file that is absent when LocateConfig looks for it ends the run in
\* failure with nothing read and nothing written.
C4_InvalidLikeMissing ==
  /\ readKind \in {"invalid", "missing"} => pc # "read" /\ StartedEmpty
  /\ (~cfg0.exists /\ pc # "locate") =>
       /\ config_file = None /\ readKind = "none" /\ startDoc = JNull
       /\ result = "False" /\ fsLog = <<>> /\ cfgFile = cfg0
       /\ pc = "done" => exitStatus = 1

C4_Witness ==
  /\ pc = "done" /\ exitStatus = 0
  /\ cfg0 = Garbage /\ readKind = "missing"
  /\ cfgFile = JsonText(FreshDoc(school_mcp_config))

\* the run has not touched a file
NoFileTouched == fsLog = <<>> /\ cfgFile = cfg0 /\ envFile = env0

\* C5 as claimed: when LocateConfig finds no file the run fails with the
\* manual instructions printed, status 1, and no probe, no prompt and no
\* write.
C5_NotFoundNoProbe ==
  (config_file = None /\ pc # "locate") =>
     /\ pc \in {"exit", "done"} /\ result = "False" /\ printedManual
     /\ pc = "done" => exitStatus = 1
     /\ probes = <<>>
     /\ prompts = <<>>
     /\ NoFileTouched

\* C5 as amended: when LocateConfig finds no file the run fails with the
\* manual instructions printed and status 1; it takes no further step of
\* the pipeline, probes for no package, issues no prompt and writes no
\* file; the only probes are the script and runtime resolution that
\* print_manual_instructions performs to build its example.
C5_NotFoundStops ==
  (config_file = None /\ pc # "locate") =>
     /\ pc \in {"exit", "done"} /\ result = "False" /\ printedManual
     /\ pc = "done" => exitStatus = 1
     /\ trace \in {<<"locate">>, <<"locate", "exit">>}
     /\ probes \in {<<"script", "runtime">>, <<"script", "runtime", "runtime">>}
     /\ prompts = <<>>
     /\ NoFileTouched

C5_Witness ==
  /\ pc = "done" /\ exitStatus = 1 /\ config_file = None /\ ~cfg0.exists
  /\ printedManual /\ probes = <<"script", "runtime", "runtime">>

\* C6: when the package resolution has run and found no package, the run
\* fails with status 1 having issued no prompt, created no credentials file
\* and written nothing to the host configuration file.
C6_NoPackageNoWrite ==
  ("package" \in Range(probes) /\ package_path = None) =>
     /\ pc \in {"exit", "done"} /\ result = "False"
     /\ pc = "done" => exitStatus = 1
     /\ Range(trace) \subseteq {"locate", "read", "ensure", "resolve", "exit"}
     /\ prompts = <<>>
     /\ fsLog = <<>> /\ envFile = env0

C6_Witness ==
  /\ pc = "done" /\ exitStatus = 1
  /\ "package" \in Range(probes) /\ package_path = None
  /\ readKind = "ok" /\ cfgFile = cfg0 /\ ~env0.exists /\ templateFile.exists

\* the credentials step was reached with no .env file
NoCredentialsFile == ~env0.exists /\ (pc = "template" \/ "template" \in Range(trace))

Declines(text) == Lower(Strip(text)) \notin {<<>>, <<"y">>, <<"y", "e", "s">>}

MergeReached == pc \in {"build", "write"} \/ "build" \in Range(trace)

\* C7 as claimed: with no credentials file the run never reaches
\* MergeConfig and never writes the host configuration file, whatever the
\* operator answers.
C7_NoCredentialsStops ==
  NoCredentialsFile =>
     /\ ~MergeReached
     /\ Range(fsLog) \cap {"config", "config_partial"} = {}

\* C7 as amended: with no credentials file the run offers to create one
\* (from the template when there is one, then from the built-in skeleton).
\* If the operator accepts an offer the run stops there: it creates the
\* file at most once, returns failure and neither reaches MergeConfig nor
\* writes the host configuration file.  The run reaches MergeConfig only
\* when the operator has declined every offer made, the skeleton offer
\* among them, and then with no credentials file and an entry without env.
C7_StopsUnlessDeclined ==
  NoCredentialsFile =>
     /\ \A i \in 1..Len(prompts) : prompts[i][1] \in {"template", "create"}
     /\ "credentials" \in Range(trace) =>
          /\ prompts # <<>> /\ prompts[Len(prompts)][1] = "create"
          /\ templateFile.exists => Len(prompts) = 2 /\ prompts[1][1] = "template"
     /\ (\E i \in 1..Len(prompts) : ~Declines(prompts[i][2])) =>
          /\ ~MergeReached
          /\ pc \in {"exit", "done", "crashed"}
          /\ Range(fsLog) \subseteq {"env_copy", "env_skeleton"} /\ Len(fsLog) <= 1
          /\ fsLog # <<>> => result = "False" /\ envFile.exists
          /\ Terminated => exitStatus = 1
     /\ MergeReached =>
          /\ "create" \in {prompts[i][1] : i \in 1..Len(prompts)}
          /\ \A i \in 1..Len(prompts) : Declines(prompts[i][2])
          /\ ~envFile.exists /\ env_vars = EmptyDict
          /\ Range(fsLog) \subseteq {"config", "config_partial"}
          /\ pc # "build" => ~HasKey(school_mcp_config.items, Env)

C7_Witness ==
  /\ pc = "done" /\ exitStatus = 0 /\ ~env0.exists /\ ~envFile.exists
  /\ prompts = << <<"template", <<"n">>>>, <<"create", <<"n">>>> >>
  /\ ConfigWritten

\* the credentials file existed, was parsed and lacks a required key
MissingRequired ==
  /\ env0.exists /\ "credentials" \in Range(trace) /\ fault # "ValueError"
  /\ \E i \in 1..Len(RequiredVars) : ~HasKey(env_vars, RequiredVars[i])

\* C8: when the parsed credentials lack a required key the run asks for
\* confirmation before MergeConfig; unless the answer is 'y' or 'yes' the
\* run ends with status 1 without reaching MergeConfig or writing the host
\* configuration file.
C8_ConfirmBeforeMerge ==
  MissingRequired =>
     /\ Len(prompts) = 1 /\ prompts[1][1] = "continue"
     /\ LET yes == /\ Lower(Strip(prompts[1][2])) \in {<<"y">>, <<"y", "e", "s">>}
                   /\ fault # "EOFError"
        IN /\ ~yes => /\ ~MergeReached
                      /\ pc \in {"exit", "done", "crashed"}
                      /\ Terminated => exitStatus = 1
                      /\ fsLog = <<>> /\ envFile = env0
           /\ (MergeReached \/ fsLog # <<>>) => yes

C8_Witness ==
  /\ pc = "done" /\ exitStatus = 0 /\ env0 = PartialEnv /\ ConfigWritten
  /\ prompts = << <<"continue", <<" ", "Y", "E", "S", " ">>>> >>
  /\ Keys(env_vars) = {Str("CANVAS_ACCESS_TOKEN"), Str("CANVAS_DOMAIN")}

\* C9: the exit status is 0 exactly when the run wrote the host
\* configuration file with the new entry under 'school-tools', and 1 on
\* every other way a run ends.
C9_ExitStatus ==
  /\ ~Terminated => exitStatus = -1
  /\ Terminated =>
       /\ exitStatus \in {0, 1}
       /\ exitStatus = 0 <=>
            /\ pc = "done" /\ ConfigWritten
            /\ cfgFile = JsonText(config)
            /\ config.k = "obj" /\ HasKey(config.items, McpServers)
            /\ Get(config.items, McpServers).k = "obj"
            /\ HasKey(Get(config.items, McpServers).items, SchoolTools)
            /\ Get(Get(config.items, McpServers).items, SchoolTools) = school_mcp_config

C9_Witness ==
  /\ pc = "done" /\ exitStatus = 0 /\ ConfigWritten /\ ~prev.ok
  /\ trace = <<"locate", "read", "ensure", "resolve", "template", "credentials",
               "build", "write", "exit">>
  /\ env0 = CompleteEnv /\ prompts = <<>>

\* C10 as claimed: no run ends by an exception that nothing handles, and a
\* run whose write failed ends with the manual instructions printed and
\* status 1.
C10_NoUnhandledFault ==
  /\ pc # "crashed" /\ result # "raised"
  /\ (pc = "done" /\ "write" \in Range(trace) /\ ~ConfigWritten) =>
       exitStatus = 1 /\ printedManual

\* the file has a line that is neither blank nor a comment and has no "="
HasMalformedLine(file) ==
  /\ file.exists
  /\ \E i \in 1..Len(file.lines) :
       LET line == Strip(file.lines[i])
       IN line # <<>> /\ Head(line) # "#" /\ "=" \notin Range(line)

\* C11 as claimed: a run over a credentials file with a line that has no
\* "=" ends in a handled failure: no exception leaves setup_claude_config
\* and the process does not end by an unhandled fault.
C11_MalformedLineHandled ==
  (HasMalformedLine(env0) /\ "credentials" \in Range(trace)) =>
     /\ result # "raised" /\ fault = "none"
     /\ pc # "crashed"

\* the credentials files that have all four required keys
CompleteFiles == {CompleteEnv, Skeleton, Template}

\* the config file was empty, all credentials are there, the package was
\* found, the file could be read and the write did not fail
EndToEndCase ==
  /\ Terminated
  /\ cfg0 \in {EmptyFile, JsonText(JObj(EmptyDict))}
  /\ env0 \in CompleteFiles
  /\ readKind # "denied"
  /\ "package" \in Range(probes) /\ package_path # None
  /\ ~("write" \in Range(trace) /\ ~ConfigWritten)

\* the mapping the run should have parsed from CompleteEnv
CompleteEnvVars ==
  << <<Str("CANVAS_ACCESS_TOKEN"), Str("tok")>>,
     <<Str("CANVAS_DOMAIN"), Str("canvas.x.edu")>>,
     <<Str("GRADESCOPE_EMAIL"), Str("me@x.edu")>>,
     <<Str("GRADESCOPE_PASSWORD"), <<"a", "=", "b">>>> >>

\* C12: from an empty, writable config file and a credentials file with all
\* four required keys, with the package found, the run ends with status 0,
\* asks nothing, and the file's mcpServers['school-tools'].env maps every
\* parsed key to its parsed value and holds nothing else.
C12_EndToEnd ==
  EndToEndCase =>
     /\ pc = "done" /\ exitStatus = 0
     /\ prompts = <<>>
     /\ env0 = CompleteEnv => env_vars = CompleteEnvVars
     /\ Keys(env_vars) = Range(RequiredVars)
     /\ LET entry == Get(Get(cfgFile.val.items, McpServers).items, SchoolTools)
        IN /\ HasKey(entry.items, Env)
           /\ Get(entry.items, Env).k = "obj"
           /\ Len(Get(entry.items, Env).items) = Len(env_vars)
           /\ \A i \in 1..Len(env_vars) :
                Get(entry.items, Env).items[i] = <<env_vars[i][1], JStr(env_vars[i][2])>>

C12_Witness ==
  /\ EndToEndCase /\ cfg0 = EmptyFile /\ env0 = CompleteEnv /\ exitStatus = 0
  /\ script_path # None
  /\ Get(Get(Get(cfgFile.val.items, McpServers).items, SchoolTools).items, Env)
       = JObj([i \in 1..4 |-> <<CompleteEnvVars[i][1], JStr(CompleteEnvVars[i][2])>>])

\* the candidates in the order of lines 75 and 88
Candidates ==
  <<"sys.executable", "python", "python3", "python3.8", "python3.9", "python3.10", "python3.11">>

\* what the environment answers for the n-th candidate
OutcomeOf(n) == IF n = 1 THEN renv.cur ELSE renv.alt[n - 1]

\* the path find_python_executable has for the n-th candidate
PathOf(n) == IF n = 1 THEN <<"venv", "bin", "python">> ELSE <<"usr", "bin", Candidates[n]>>

\* C13: find_python_executable always returns a runtime path, and when the
\* probe of the current runtime and the probe of every alternate fail
\* (no sentinel, not on the search path, or the probe raising) it returns
\* the path of the current runtime.
C13_FallsBackToCurrent ==
  rpc = "returned" =>
     /\ rret # None
     /\ (\A n \in 1..Len(Candidates) : OutcomeOf(n) # "found") =>
          /\ rret = <<"venv", "bin", "python">>
          /\ Len(rlog) = Len(Candidates)
     /\ rret = FindPythonExecutable(renv.cur, renv.alt)

C13_Witness ==
  /\ rpc = "returned" /\ rret = SysExecutable
  /\ renv.cur = "raises"
  /\ {renv.alt[i] : i \in 1..6} = {"notfound", "absent", "raises"}
  /\ Len(rlog) = 7

\* C14: the candidates are looked at in the order current runtime, python,
\* python3, python3.8, python3.9, python3.10, python3.11; a candidate is
\* looked at only when every earlier one has failed; nothing is looked at
\* after a success; and when a candidate succeeds the path returned is its
\* path, the first in that order whose output has the sentinel.
C14_OrderAndShortCircuit ==
  /\ Len(rlog) <= Len(Candidates)
  /\ \A n \in 1..Len(rlog) :
       /\ rlog[n] = <<Candidates[n], OutcomeOf(n)>>
       /\ n < Len(rlog) => rlog[n][2] # "found"
  /\ (rlog # <<>> /\ rlog[Len(rlog)][2] = "found") =>
       rpc = "returned" /\ rret = PathOf(Len(rlog))
  /\ (rpc = "returned" /\ \E n \in 1..Len(Candidates) : OutcomeOf(n) = "found") =>
       LET first == CHOOSE n \in 1..Len(Candidates) :
                      OutcomeOf(n) = "found" /\ \A m \in 1..(n - 1) : OutcomeOf(m) # "found"
       IN Len(rlog) = first /\ rret = PathOf(first)

C14_Witness ==
  /\ rpc = "returned" /\ Len(rlog) = 4
  /\ rret = <<"usr", "bin", "python3.8">>
  /\ renv.cur = "notfound" /\ renv.alt[1] = "absent" /\ renv.alt[2] = "raises"
  /\ renv.alt[5] = "found"

\* the entry under 'school-tools' in a document
EntryIn(doc) == Get(Get(doc.items, McpServers).items, SchoolTools)

\* the run started from a document with an earlier entry under 'school-tools'
HadOldEntry ==
  /\ startDoc.k = "obj" /\ HasKey(startDoc.items, McpServers)
  /\ Get(startDoc.items, McpServers).k = "obj"
  /\ HasKey(Get(startDoc.items, McpServers).items, SchoolTools)

\* C15: after a successful write the file's mcpServers['school-tools'] is
\* the newly built entry and nothing else: it is filed once, it has no
\* member of the earlier entry, no 'args' when the new entry is the script
\* form and no 'env' when no credentials were parsed.
C15_EntryReplacedWhole ==
  ConfigWritten =>
     LET servers == Get(cfgFile.val.items, McpServers).items
         e == EntryIn(cfgFile.val)
     IN /\ Cardinality({i \in 1..Len(servers) : servers[i][1] = <<"school-tools">>}) = 1
        /\ e = school_mcp_config
        /\ Keys(e.items) \subseteq {<<"command">>, <<"args">>, <<"env">>}
        /\ script_path # None => ~HasKey(e.items, <<"args">>)
        /\ env_vars = <<>> => ~HasKey(e.items, <<"env">>)
        /\ \A i \in 1..Len(e.items) : e.items[i] \notin Range(OldEntry.items)

C15_Witness ==
  /\ pc = "done" /\ exitStatus = 0 /\ ConfigWritten
  /\ HadOldEntry /\ EntryIn(startDoc) = OldEntry
  /\ Keys(EntryIn(cfgFile.val).items) = {<<"command">>}

\* C16: the entry built has the script path as its command and no 'args'
\* when a script path was resolved, and otherwise the runtime path as its
\* command and ['-m', 'school_mcp'] as its args; a run whose package was
\* found goes on from the resolution whether or not a script was found.
C16_EntryShape ==
  /\ "build" \in Range(trace) =>
       LET e == school_mcp_config.items
       IN IF script_path # None
          THEN /\ Get(e, <<"command">>) = JStr(script_path)
               /\ ~HasKey(e, <<"args">>)
          ELSE /\ python_path # None
               /\ Get(e, <<"command">>) = JStr(python_path)
               /\ Get(e, <<"args">>) = JList(<< JStr(<<"-m">>), JStr(<<"school_mcp">>) >>)
  /\ (trace # <<>> /\ trace[Len(trace)] = "resolve" /\ package_path # None) =>
       pc = "template" /\ result = "running" /\ fault = "none"

C16_Witness ==
  /\ pc = "done" /\ exitStatus = 0 /\ ConfigWritten
  /\ script_path = None
  /\ Keys(EntryIn(cfgFile.val).items) = {<<"command">>, <<"args">>, <<"env">>}
  /\ Get(EntryIn(cfgFile.val).items, <<"command">>) = JStr(<<"usr", "bin", "python">>)

\* the one path find_claude_config looks at on each platform
CandidatePath ==
  IF platform = "darwin"
  THEN <<"home", "Library", "Application Support", "Claude", "claude_desktop_config.json">>
  ELSE IF platform = "win32"
  THEN <<"AppData", "Claude", "claude_desktop_config.json">>
  ELSE <<"home", ".config", "Claude", "claude_desktop_config.json">>

\* C18: find_claude_config returns a path only when the file is there when
\* it looks, and then the platform's candidate path; it returns nothing
\* when the file is not there, or when no candidate can be computed (win32
\* without APPDATA, the one case of a file that is there and not found);
\* and the step changes no file.
C18_LocatorPureCheck ==
  pc # "locate" =>
     /\ config_file # None => cfg0.exists /\ config_file = CandidatePath
     /\ ~cfg0.exists => config_file = None
     /\ (cfg0.exists /\ config_file = None) => platform = "win32"
     /\ trace = <<"locate">> => fsLog = <<>> /\ cfgFile = cfg0 /\ envFile = env0
     /\ config_file = None => fsLog = <<>> /\ cfgFile = cfg0 /\ envFile = env0

C18_Witness ==
  /\ pc = "done" /\ exitStatus = 1
  /\ platform = "win32" /\ cfg0.exists /\ config_file = None
  /\ cfgFile = cfg0 /\ ~env0.exists /\ envFile = env0 /\ templateFile.exists

\* the writes of the credentials file in this run
EnvWrites == SelectSeq(fsLog, LAMBDA w : w \in {"env_copy", "env_skeleton"})

\* the operator's answer takes the default or says yes
Accepted(text) ==
  LET a == Lower(Strip(text)) IN a = <<>> \/ a = <<"y">> \/ a = <<"y", "e", "s">>

\* C19: a credentials file that is there when the run starts is the same
\* file at every later point of the run; the file changes only by one of
\* the two creations, at most one per run, made when the file is absent and
\* the operator's answer to that offer is empty, 'y' or 'yes'.
C19_CredentialsFileCreatedOnce ==
  /\ env0.exists => envFile = env0 /\ EnvWrites = <<>>
  /\ envFile # env0 => EnvWrites # <<>>
  /\ EnvWrites # <<>> =>
       /\ ~env0.exists
       /\ Len(EnvWrites) = 1
       /\ prompts # <<>>
       /\ Accepted(prompts[Len(prompts)][2])
       /\ EnvWrites[1] = "env_copy" =>
            /\ prompts[Len(prompts)][1] = "template"
            /\ templateFile.exists /\ envFile = templateFile
       /\ EnvWrites[1] = "env_skeleton" =>
            /\ prompts[Len(prompts)][1] = "create"
            /\ envFile.exists /\ Len(envFile.lines) = 7
            /\ LoadEnvFile(envFile).vars[1] =
                 << <<"CANVAS_ACCESS_TOKEN">>, <<"your_canvas_token_here">> >>

C19_Witness ==
  /\ pc = "done" /\ ~env0.exists /\ fsLog = <<"env_copy">>
  /\ prompts = << <<"template", <<>>>> >>
  /\ envFile = templateFile /\ envFile.exists

\* the last step of the run that is not the exit of the process
LastStep ==
  IF trace = <<>> THEN "none"
  ELSE IF trace[Len(trace)] = "exit" THEN trace[Len(trace) - 1]
  ELSE trace[Len(trace)]

\* C20: a run makes at most one write; a run that has created the
\* credentials file has ended there with the result False (status 1) and
\* the host configuration file as it was (or gone, when something else
\* removed it before the run read it); a run that has opened the host
\* configuration file for writing has not created the credentials file and
\* makes no step but the exit afterwards.
C20_OneFilePerRun ==
  /\ Len(fsLog) <= 1
  /\ EnvWrites # <<>> =>
       /\ pc \in {"exit", "done"} /\ result = "False"
       /\ pc = "done" => exitStatus = 1
       /\ cfgFile = cfg0 \/ (readKind = "missing" /\ ~cfgFile.exists)
       /\ LastStep \in {"template", "credentials"}
       /\ "build" \notin Range(trace) /\ "write" \notin Range(trace)
  /\ (fsLog # <<>> /\ fsLog[1] \in {"config", "config_partial"}) =>
       /\ pc \in {"exit", "done"}
       /\ LastStep = "write"
       /\ envFile = env0

C20_Witness ==
  /\ pc = "done" /\ exitStatus = 1 /\ fsLog = <<"env_skeleton">>
  /\ templateFile.exists /\ Len(prompts) = 2
  /\ cfg0.exists /\ cfgFile = cfg0 /\ envFile # env0

\* the places of the lines that are neither blank nor comments
EffectiveLines(file) ==
  { i \in 1..Len(file.lines) :
      LET l == Strip(file.lines[i]) IN l # <<>> /\ Head(l) # "#" }

\* the place of the first "=" of a line that has one
FirstEq(raw) == CHOOSE i \in 1..Len(raw) : raw[i] = "=" /\ \A j \in 1..(i - 1) : raw[j] # "="

KeyOfLine(raw) == Strip(SubSeq(raw, 1, FirstEq(raw) - 1))

ValueOfLine(raw) == Strip(SubSeq(raw, FirstEq(raw) + 1, Len(raw)))

\* the places of the effective lines of a file that give a key
LinesOfKey(file, key) == { i \in EffectiveLines(file) : KeyOfLine(file.lines[i]) = key }

Least(S) == CHOOSE i \in S : \A j \in S : i <= j

Greatest(S) == CHOOSE i \in S : \A j \in S : j <= i

\* C17: for a file whose lines, once trimmed, are blank, begin with '#' or
\* contain '=', load_env_file returns a mapping and does not raise; its
\* keys are the trimmed texts before the first '=' of the lines that are
\* neither blank nor comments, each once, in the order of their first
\* lines; the value of a key is the trimmed text after the first '=' of the
\* last line that gives the key; the file 'A=1\nB=2\n# comment\n\n' gives
\* exactly {A: '1', B: '2'}.
C17_ParsedMapping ==
  (ppc # "called" /\ ~HasMalformedLine(pfile)) =>
     LET parsed == pout.vars
     IN /\ ppc = "returned" /\ ~pout.raised
        /\ Keys(parsed) = { KeyOfLine(pfile.lines[i]) : i \in EffectiveLines(pfile) }
        /\ Len(parsed) = Cardinality(Keys(parsed))
        /\ \A n \in 1..Len(parsed) :
             /\ parsed[n][2] = ValueOfLine(pfile.lines[Greatest(LinesOfKey(pfile, parsed[n][1]))])
             /\ \A m \in 1..(n - 1) :
                  Least(LinesOfKey(pfile, parsed[m][1])) < Least(LinesOfKey(pfile, parsed[n][1]))
        /\ pfile.lines = << <<"A", "=", "1">>, <<"B", "=", "2">>, <<"#", " ", "comment">>, <<>> >> =>
             parsed = << << <<"A">>, <<"1">> >>, << <<"B">>, <<"2">> >> >>

C17_Witness ==
  /\ ppc = "returned"
  /\ pfile = TextFile(<< <<" ", "A", " ", "=", " ", "2", " ">>, <<"B", "=">>, <<"A", "=", "x", "=", "y">> >>)
  /\ pout.vars = << << <<"A">>, <<"x", "=", "y">> >>, << <<"B">>, <<>> >> >>

====
